---- MODULE Spec2Model ----
(***************************************************************************)
(* Vector index synchronisation and semantic search of the clinical-trial  *)
(* metadata repository: TrialVectorStore (src/vector_store.py) and the     *)
(* FastAPI handlers that drive it (src/Project.py).                        *)
(*                                                                         *)
(* Spec      one request at a time: every handler is one action.           *)
(* SpecConc  two worker threads of the running server, every handler cut   *)
(*           at the statements between which the interpreter may switch    *)
(*           threads.                                                      *)
(***************************************************************************)
EXTENDS Integers, Sequences, FiniteSets, TLC

VARIABLES
    up,         \* the server process is running (global vector_store is not None)
    store,      \* the TrialVectorStore the global vector_store refers to
    disk,       \* the directory "vector_store": index.faiss and trial_ids.json
    db,         \* the Mongo collection db.trials, in fetch order
    last,       \* the operation that completed last and what it reported
    pc,         \* SpecConc: the statement each worker thread is at
    loc,        \* SpecConc: the locals of each worker thread
    old         \* SpecConc: a TrialVectorStore the global no longer refers to

vars == <<up, store, disk, db, last, pc, loc, old>>

----------------------------------------------------------------------------
(* Bounds of the model *)

\* most documents in db.trials
MaxDb == 2
\* most identifiers in a ledger a record is appended to
MaxLen == 2
\* largest top_k a query asks for
MaxTopK == 2

\* identifiers of records
Ids == {"a", "b"}
\* subject texts: f"{title} {description} {primary_outcome}"
Texts == {1, 2}
Records == [id : Ids, txt : Texts]

Min(x, y) == IF x <= y THEN x ELSE y

----------------------------------------------------------------------------
(* TrialVectorStore *)

\* self.model.encode: deterministic, fixed dimension (here one coordinate)
Embed(t) == 3 * (t - 1)

\* __init__: index = None, trial_ids = []
NewStore == [has_index |-> FALSE, index |-> <<>>, trial_ids |-> <<>>]

\* create_index: a new, empty IndexFlatL2; trial_ids is left as it is
create_index(s) == [s EXCEPT !.has_index = TRUE, !.index = <<>>]

\* add_trials, lines 26-33: the identifiers and the embeddings of the batch
batch_ids(trials) == [i \in 1..Len(trials) |-> trials[i].id]
batch_embeddings(trials) == [i \in 1..Len(trials) |-> Embed(trials[i].txt)]

\* add_trials, line 43: self.index.add(embeddings)
index_add(s, embeddings) == [s EXCEPT !.index = s.index \o embeddings]

\* What line 44 is NOT: an extend that skips the identifiers the ledger
\* already holds.  The code appends unconditionally (ids_extend below).
ids_extend_unique(s, ids) ==
    [s EXCEPT !.trial_ids =
        s.trial_ids \o SelectSeq(ids, LAMBDA x : \A i \in DOMAIN s.trial_ids : s.trial_ids[i] # x)]

\* add_trials, line 44: self.trial_ids.extend(trial_ids)
ids_extend(s, ids) == [s EXCEPT !.trial_ids = s.trial_ids \o ids]

\* add_trials as a whole.  An empty batch encodes to an array of shape (0,),
\* which index.add rejects (ValueError) after the index was created.
add_trials(s, trials) ==
    LET s1 == IF s.has_index THEN s ELSE create_index(s)
    IN  IF trials = <<>>
        THEN [store |-> s1, raised |-> TRUE]
        ELSE [store |-> ids_extend(index_add(s1, batch_embeddings(trials)),
                                   batch_ids(trials)),
              raised |-> FALSE]

\* a file of the artifact: absent, partly written, or complete with its data
NoFile == [st |-> "absent", data |-> <<>>]
Partial == [st |-> "partial", data |-> <<>>]
File(data) == [st |-> "ok", data |-> data]

\* the complete artifact a save of store s writes
Artifact(s) == [index_file |-> File(s.index), ids_file |-> File(s.trial_ids)]

\* where save can fail
SaveFaults == {"none", "makedirs", "open_ids", "dump_ids"}

\* save: makedirs, faiss.write_index(index.faiss), then open(trial_ids.json, "w")
\* and json.dump, each written in place.  It can fail before it writes
\* anything ("makedirs"; also write_index(None), which raises before it opens
\* the file), when it opens trial_ids.json ("open_ids": index.faiss is
\* written, trial_ids.json untouched) or inside json.dump ("dump_ids":
\* trial_ids.json is already truncated).
save(s, d, fault) ==
    IF fault = "makedirs" \/ ~s.has_index
    THEN [disk |-> d, raised |-> TRUE]
    ELSE IF fault = "open_ids"
    THEN [disk |-> [d EXCEPT !.index_file = File(s.index)], raised |-> TRUE]
    ELSE IF fault = "dump_ids"
    THEN [disk |-> [index_file |-> File(s.index), ids_file |-> Partial],
          raised |-> TRUE]
    ELSE [disk |-> [index_file |-> File(s.index), ids_file |-> File(s.trial_ids)],
          raised |-> FALSE]

\* What load is NOT: a load that reads index.faiss and leaves self.trial_ids
\* as it is.  The code reads trial_ids.json as well (load below).
load_index_only(s, d) ==
    IF d.index_file.st # "ok"
    THEN [store |-> s, raised |-> TRUE]
    ELSE [store |-> [s EXCEPT !.has_index = TRUE, !.index = d.index_file.data],
          raised |-> FALSE]

\* load: self.index = faiss.read_index(...), then self.trial_ids = json.load(...);
\* an absent or unreadable file raises at its statement.  Nothing compares
\* the two lengths.
load(s, d) ==
    IF d.index_file.st # "ok"
    THEN [store |-> s, raised |-> TRUE]
    ELSE LET s1 == [s EXCEPT !.has_index = TRUE, !.index = d.index_file.data]
         IN  IF d.ids_file.st # "ok"
             THEN [store |-> s1, raised |-> TRUE]
             ELSE [store |-> [s1 EXCEPT !.trial_ids = d.ids_file.data],
                   raised |-> FALSE]

\* IndexFlatL2.search pads the neighbours it cannot supply with position -1
\* at this distance (the largest float)
FLT_MAX == 1000

\* squared Euclidean distance
L2(v, w) == (v - w) * (v - w)

\* IndexFlatL2.search(query, k): the k nearest stored vectors by ascending
\* distance, equal distances by ascending position, as (0-based position,
\* distance); missing neighbours as (-1, FLT_MAX)
RECURSIVE faiss_search(_, _, _, _)
faiss_search(vecs, qv, k, taken) ==
    IF k <= 0 THEN <<>>
    ELSE IF taken = DOMAIN vecs
    THEN <<[idx |-> -1, dist |-> FLT_MAX]>> \o faiss_search(vecs, qv, k - 1, taken)
    ELSE LET rest == DOMAIN vecs \ taken
             best == CHOOSE p \in rest : \A r \in rest :
                        \/ L2(vecs[p], qv) < L2(vecs[r], qv)
                        \/ L2(vecs[p], qv) = L2(vecs[r], qv) /\ p <= r
         IN  <<[idx |-> best - 1, dist |-> L2(vecs[best], qv)]>>
                 \o faiss_search(vecs, qv, k - 1, taken \cup {best})

\* Python list indexing: a negative position counts from the end
PyIndex(seq, i) == IF i >= 0 THEN seq[i + 1] ELSE seq[Len(seq) + i + 1]

\* What the test of line 67 is NOT: one that leaves out the last position of
\* the ledger.  The code keeps every idx below len(self.trial_ids).
RECURSIVE search_results_short(_, _)
search_results_short(hits, ids) ==
    IF hits = <<>> THEN <<>>
    ELSE LET h == Head(hits)
         IN  (IF h.idx < Len(ids) - 1
              THEN <<[trial_id |-> PyIndex(ids, h.idx), score |-> 10 - h.dist]>>
              ELSE <<>>) \o search_results_short(Tail(hits), ids)

\* search, lines 64-73: every hit with idx < len(trial_ids) becomes
\* {trial_id: trial_ids[idx], similarity_score: 1 - distance/10}; the score is
\* kept in tenths (10 - distance)
RECURSIVE search_results(_, _)
search_results(hits, ids) ==
    IF hits = <<>> THEN <<>>
    ELSE LET h == Head(hits)
         IN  (IF h.idx < Len(ids)
              THEN <<[trial_id |-> PyIndex(ids, h.idx), score |-> 10 - h.dist]>>
              ELSE <<>>) \o search_results(Tail(hits), ids)

\* search: no index raises ValueError; an empty ledger returns []; a top_k
\* below 1 makes index.search raise
search(s, q, top_k) ==
    IF ~s.has_index THEN [results |-> <<>>, raised |-> TRUE]
    ELSE IF Len(s.trial_ids) = 0 THEN [results |-> <<>>, raised |-> FALSE]
    ELSE LET k == Min(top_k, Len(s.trial_ids))
         IN  IF k <= 0 THEN [results |-> <<>>, raised |-> TRUE]
             ELSE [results |-> search_results(faiss_search(s.index, Embed(q), k, {}),
                                              s.trial_ids),
                   raised |-> FALSE]

----------------------------------------------------------------------------
(* The handlers of src/Project.py, each as the function it computes *)

\* get_db() called without FastAPI's dependency injection: client is the
\* Depends marker, and client[...] raises TypeError
get_db_direct == [raised |-> TRUE]

\* db.trials.find_one({"id": trial_id}): the first document with that id
Found(docs, id) == \E i \in DOMAIN docs : docs[i].id = id
first_with(docs, id) ==
    CHOOSE i \in DOMAIN docs :
        docs[i].id = id /\ \A j \in DOMAIN docs : docs[j].id = id => i <= j
find_one(docs, id) == docs[first_with(docs, id)]

\* initialize_vector_store (startup): load, and on any exception create an
\* empty index and add the trials of get_db(); every exception is printed,
\* none is raised
initialize_vector_store(d, docs, fault) ==
    LET l == load(NewStore, d)
        s1 == create_index(l.store)
    IN  IF ~l.raised THEN [store |-> l.store, disk |-> d]
        ELSE IF get_db_direct.raised \/ docs = <<>>
        THEN [store |-> s1, disk |-> d]
        ELSE LET a == add_trials(s1, docs)
             IN  [store |-> a.store, disk |-> save(a.store, d, fault).disk]

\* create_trial, lines 179-184: add_trials([trial_dict]) and save(); an
\* exception of save leaves the handler as a 500
create_trial(s, d, trial, fault) ==
    LET a == add_trials(s, <<trial>>)
        sv == save(a.store, d, fault)
    IN  [store |-> a.store, disk |-> sv.disk,
         outcome |-> IF a.raised \/ sv.raised THEN "error" ELSE "ok"]

\* refresh_vector_store: the global is replaced by a new store before
\* anything else; no trials: "warning", nothing added and nothing saved
refresh_vector_store(d, docs, fault) ==
    LET s0 == create_index(NewStore)
        a == add_trials(s0, docs)
        sv == save(a.store, d, fault)
    IN  IF docs = <<>>
        THEN [store |-> s0, disk |-> d, outcome |-> "warning"]
        ELSE [store |-> a.store, disk |-> sv.disk,
              outcome |-> IF a.raised \/ sv.raised THEN "error" ELSE "ok"]

\* semantic_search, lines 463-485: each result's document, with the score of
\* the first result that carries the same trial_id; unresolved ids are skipped
first_score(results, id) ==
    results[CHOOSE i \in DOMAIN results :
               results[i].trial_id = id
               /\ \A j \in DOMAIN results : results[j].trial_id = id => i <= j].score

\* What lines 467-483 are NOT: a loop that ends at the first identifier that
\* does not resolve.  The code skips such an identifier and goes on (resolve).
RECURSIVE resolve_stop(_, _, _)
resolve_stop(rest, results, docs) ==
    IF rest = <<>> THEN <<>>
    ELSE LET id == Head(rest).trial_id
         IN  IF Found(docs, id)
             THEN <<[id |-> id, txt |-> find_one(docs, id).txt,
                     score |-> first_score(results, id)]>>
                      \o resolve_stop(Tail(rest), results, docs)
             ELSE <<>>

RECURSIVE resolve(_, _, _)
resolve(rest, results, docs) ==
    IF rest = <<>> THEN <<>>
    ELSE LET id == Head(rest).trial_id
         IN  (IF Found(docs, id)
              THEN <<[id |-> id, txt |-> find_one(docs, id).txt,
                      score |-> first_score(results, id)]>>
              ELSE <<>>) \o resolve(Tail(rest), results, docs)

\* semantic_search, lines 443-457: a store without an index is replaced by
\* one rebuilt from all trials (no guard for an empty collection)
semantic_search_init(s, d, docs, fault) ==
    IF s.has_index THEN [store |-> s, disk |-> d, raised |-> FALSE]
    ELSE LET a == add_trials(create_index(NewStore), docs)
             sv == save(a.store, d, fault)
         IN  IF a.raised THEN [store |-> a.store, disk |-> d, raised |-> TRUE]
             ELSE [store |-> a.store, disk |-> sv.disk, raised |-> sv.raised]

\* semantic_search as a whole
semantic_search(s, d, docs, q, top_k, fault) ==
    LET i == semantic_search_init(s, d, docs, fault)
        r == search(i.store, q, top_k)
    IN  IF i.raised \/ r.raised
        THEN [store |-> i.store, disk |-> i.disk, outcome |-> "error", out |-> <<>>]
        ELSE [store |-> i.store, disk |-> i.disk, outcome |-> "ok",
              out |-> resolve(r.results, r.results, docs)]

\* db.trials.delete_one({"id": trial_id}): the first document with that id goes
delete_one(docs, id) ==
    IF ~Found(docs, id) THEN docs
    ELSE LET p == first_with(docs, id)
         IN  [j \in 1..(Len(docs) - 1) |-> IF j < p THEN docs[j] ELSE docs[j + 1]]

\* db.trials.update_one({"id": trial_id}, {"$set": ...}): the first document
\* with that id gets the new text
update_one(docs, id, txt) ==
    IF ~Found(docs, id) THEN docs
    ELSE [docs EXCEPT ![first_with(docs, id)].txt = txt]

----------------------------------------------------------------------------
(* State *)

Threads == {"t1", "t2"}
\* a thread's locals: the handler it runs, the identifier it creates, the batch
\* it adds, the store self is bound to inside a method ("global": the one the
\* global refers to, "old": one the global referred to when the method was
\* entered), the query, and the hits of index.search
NoLocals == [op |-> "none", id |-> "-", trials |-> <<>>, self |-> "global",
             q |-> 1, top_k |-> 0, hits |-> <<>>]
NoDisk == [index_file |-> NoFile, ids_file |-> NoFile]

\* what an operation reported: op, outcome and the identifier it was about
Done(op, outcome, id) == [op |-> op, outcome |-> outcome, id |-> id]

\* the faults that can show: all of them where save is reached, else none
FaultsIf(saves) == IF saves THEN SaveFaults ELSE {"none"}

\* sequences over S of length at most n
SeqUpTo(S, n) == UNION {[1..m -> S] : m \in 0..n}

\* The process is not running, no artifact was ever written, and the primary
\* store holds whatever other clients put there.
Init ==
    /\ up = FALSE
    /\ store = NewStore
    /\ disk = NoDisk
    /\ db \in SeqUpTo(Records, 1)
    /\ last = Done("none", "ok", "-")
    /\ pc = [t \in Threads |-> "idle"]
    /\ loc = [t \in Threads |-> NoLocals]
    /\ old = NewStore

----------------------------------------------------------------------------
(* Spec: one request at a time *)

\* the startup event of the application
Startup ==
    /\ ~up
    /\ \E fault \in FaultsIf(load(NewStore, disk).raised /\ ~get_db_direct.raised
                            /\ db # <<>>) :
          LET r == initialize_vector_store(disk, db, fault)
          IN  /\ store' = r.store
              /\ disk' = r.disk
    /\ up' = TRUE
    /\ last' = Done("startup", "ok", "-")
    /\ UNCHANGED <<db, pc, loc, old>>

\* the process stops; its memory is gone, the artifact and the primary store stay
Stop ==
    /\ up
    /\ up' = FALSE
    /\ store' = NewStore
    /\ last' = Done("stop", "ok", "-")
    /\ UNCHANGED <<disk, db, pc, loc, old>>

\* POST /trials
CreateTrial ==
    /\ up
    /\ Len(db) < MaxDb
    /\ Len(store.trial_ids) < MaxLen
    /\ Len(store.index) <= MaxLen
    /\ \E trial \in Records, fault \in SaveFaults :
          LET r == create_trial(store, disk, trial, fault)
          IN  /\ db' = Append(db, trial)
              /\ store' = r.store
              /\ disk' = r.disk
              /\ last' = Done("create", r.outcome, trial.id)
    /\ UNCHANGED <<up, pc, loc, old>>

\* POST /refresh-vector-store
Refresh ==
    /\ up
    /\ \E fault \in FaultsIf(db # <<>>) :
          LET r == refresh_vector_store(disk, db, fault)
          IN  /\ store' = r.store
              /\ disk' = r.disk
              /\ last' = Done("refresh", r.outcome, "-")
    /\ UNCHANGED <<up, db, pc, loc, old>>

\* GET /semantic-search
SemanticSearch ==
    /\ up
    /\ \E q \in Texts, top_k \in 0..MaxTopK, fault \in FaultsIf(~store.has_index) :
          LET r == semantic_search(store, disk, db, q, top_k, fault)
          IN  /\ store' = r.store
              /\ disk' = r.disk
              /\ last' = Done("query", r.outcome, "-")
    /\ UNCHANGED <<up, db, pc, loc, old>>

\* What DELETE /trials/{trial_id} is NOT: a handler that also takes an entry
\* out of the in-memory pair.  The code never touches vector_store (DeleteTrial).
DeleteTrial_propagating ==
    /\ up
    /\ store.trial_ids # <<>>
    /\ store' = [store EXCEPT !.trial_ids = SubSeq(@, 1, Len(@) - 1),
                              !.index = SubSeq(@, 1, Len(@) - 1)]
    /\ last' = Done("delete", "ok", "-")
    /\ UNCHANGED <<up, disk, db, pc, loc, old>>

\* DELETE /trials/{trial_id}: db = get_db() is called directly
DeleteTrial ==
    /\ up
    /\ IF get_db_direct.raised
       THEN /\ db' = db
            /\ last' = Done("delete", "error", "-")
       ELSE \E id \in Ids :
               /\ db' = delete_one(db, id)
               /\ last' = Done("delete", IF Found(db, id) THEN "ok" ELSE "error", "-")
    /\ UNCHANGED <<up, store, disk, pc, loc, old>>

\* PUT /trials/{trial_id}: db = get_db() is called directly
UpdateTrial ==
    /\ up
    /\ IF get_db_direct.raised
       THEN /\ db' = db
            /\ last' = Done("update", "error", "-")
       ELSE \E id \in Ids, txt \in Texts :
               /\ db' = update_one(db, id, txt)
               /\ last' = Done("update", IF Found(db, id) THEN "ok" ELSE "error", "-")
    /\ UNCHANGED <<up, store, disk, pc, loc, old>>

\* another client of the Mongo database deletes a document
PrimaryDelete ==
    /\ \E id \in Ids :
          /\ Found(db, id)
          /\ db' = delete_one(db, id)
          /\ last' = Done("primary_delete", "ok", "-")
    /\ UNCHANGED <<up, store, disk, pc, loc, old>>

\* another client of the Mongo database changes a document's text
PrimaryUpdate ==
    /\ \E id \in Ids, txt \in Texts :
          /\ Found(db, id)
          /\ find_one(db, id).txt # txt
          /\ db' = update_one(db, id, txt)
          /\ last' = Done("primary_update", "ok", "-")
    /\ UNCHANGED <<up, store, disk, pc, loc, old>>

Next ==
    \/ Startup
    \/ Stop
    \/ CreateTrial
    \/ Refresh
    \/ SemanticSearch
    \/ DeleteTrial
    \/ UpdateTrial
    \/ PrimaryDelete
    \/ PrimaryUpdate

Spec == Init /\ [][Next]_vars

\* Spec restricted to the steps that report no failure
NextClean ==
    /\ \/ Startup
       \/ Stop
       \/ CreateTrial
       \/ Refresh
       \/ SemanticSearch
       \/ PrimaryDelete
       \/ PrimaryUpdate
    /\ last'.outcome # "error"

SpecClean == Init /\ [][NextClean]_vars

----------------------------------------------------------------------------
(* SpecConc: the handlers run on worker threads.  FastAPI runs every "def"   *)
(* handler on a thread pool, and nothing in src/ takes a lock; a thread can  *)
(* be descheduled between any two of the statements below.  Startup has      *)
(* completed, each of the two threads serves one request, saves do not      *)
(* fail, and the primary store has no other client.                          *)

\* The server is running; the primary store is empty and nothing was ever
\* saved, or it holds one record, created through POST /trials.
InitConc ==
    /\ up = TRUE
    /\ db \in SeqUpTo(Records, 1)
    /\ store = IF db = <<>> THEN create_index(NewStore)
                            ELSE add_trials(create_index(NewStore), db).store
    /\ disk = IF db = <<>> THEN NoDisk ELSE Artifact(store)
    /\ last = Done(IF db = <<>> THEN "startup" ELSE "create", "ok",
                   IF db = <<>> THEN "-" ELSE db[1].id)
    /\ pc = [t \in Threads |-> "idle"]
    /\ loc = [t \in Threads |-> NoLocals]
    /\ old = NewStore

\* the labels inside a method of TrialVectorStore, where self is bound
Inside(t) == pc[t] \in {"ext", "save2", "search2", "search3"}

\* the store a thread's self refers to
SelfOf(t) == IF loc[t].self = "old" THEN old ELSE store

\* thread t goes to label with locals l; the other threads stay
Goto(t, label, l) ==
    /\ pc' = [pc EXCEPT ![t] = label]
    /\ loc' = [loc EXCEPT ![t] = l]

\* the handler of thread t returns (or raises): its outcome is reported
Return(t, outcome) ==
    /\ Goto(t, "done", NoLocals)
    /\ last' = Done(loc[t].op, outcome, loc[t].id)

\* POST /trials, lines 163-177: the document is inserted
BeginCreate(t) ==
    /\ pc[t] = "idle"
    /\ Len(db) < MaxDb
    /\ \E trial \in Records :
          /\ db' = Append(db, trial)
          /\ Goto(t, "add", [NoLocals EXCEPT !.op = "create", !.id = trial.id,
                                            !.trials = <<trial>>])
    /\ UNCHANGED <<up, store, disk, last, old>>

\* POST /refresh-vector-store is entered
BeginRefresh(t) ==
    /\ pc[t] = "idle"
    /\ Goto(t, "new", [NoLocals EXCEPT !.op = "refresh"])
    /\ UNCHANGED <<up, store, disk, db, last, old>>

\* GET /semantic-search, line 443: a store without index is rebuilt first
BeginQuery(t) ==
    /\ pc[t] = "idle"
    /\ \E q \in Texts, top_k \in 1..MaxTopK :
          Goto(t, IF store.has_index THEN "search" ELSE "new",
               [NoLocals EXCEPT !.op = "query", !.q = q, !.top_k = top_k])
    /\ UNCHANGED <<up, store, disk, db, last, old>>

\* vector_store = TrialVectorStore() (lines 446, 497): the global refers to a
\* new store; a thread inside a method keeps the store it entered with
NewGlobal(t) ==
    /\ pc[t] = "new"
    /\ LET held == {u \in Threads \ {t} : Inside(u) /\ loc[u].self = "global"}
       IN  /\ old' = IF held # {} THEN store ELSE old
           /\ loc' = [u \in Threads |->
                        IF u \in held THEN [loc[u] EXCEPT !.self = "old"] ELSE loc[u]]
    /\ store' = NewStore
    /\ pc' = [pc EXCEPT ![t] = "create_index"]
    /\ UNCHANGED <<up, disk, db, last>>

\* vector_store.create_index() (lines 447, 498)
CreateIndex(t) ==
    /\ pc[t] = "create_index"
    /\ store' = create_index(store)
    /\ Goto(t, "find", loc[t])
    /\ UNCHANGED <<up, disk, db, last, old>>

\* trials = list(db.trials.find({})) (lines 450, 501); refresh returns a
\* warning when there are none
FindAll(t) ==
    /\ pc[t] = "find"
    /\ IF loc[t].op = "refresh" /\ db = <<>>
       THEN Return(t, "warning")
       ELSE /\ Goto(t, "add", [loc[t] EXCEPT !.trials = db])
            /\ last' = last
    /\ UNCHANGED <<up, store, disk, db, old>>

\* vector_store.add_trials(...), lines 21-43: self is the store the global
\* refers to now; the batch is encoded, the index created if there is none,
\* and the vectors are added.  An empty batch raises.
IndexAdd(t) ==
    /\ pc[t] = "add"
    /\ LET s1 == IF store.has_index THEN store ELSE create_index(store)
       IN  IF loc[t].trials = <<>>
           THEN /\ store' = s1
                /\ Return(t, "error")
           ELSE /\ store' = index_add(s1, batch_embeddings(loc[t].trials))
                /\ Goto(t, "ext", [loc[t] EXCEPT !.self = "global"])
                /\ last' = last
    /\ UNCHANGED <<up, disk, db, old>>

\* add_trials, line 44: self.trial_ids.extend(trial_ids), and the method returns
IdsExtend(t) ==
    /\ pc[t] = "ext"
    /\ IF loc[t].self = "old"
       THEN /\ store' = store
            /\ old' = NewStore
       ELSE /\ store' = ids_extend(store, batch_ids(loc[t].trials))
            /\ old' = old
    /\ Goto(t, "save", [loc[t] EXCEPT !.self = "global"])
    /\ UNCHANGED <<up, disk, db, last>>

\* vector_store.save(), lines 75-80: self is the store the global refers to
\* now; index.faiss is written
SaveIndex(t) ==
    /\ pc[t] = "save"
    /\ IF ~store.has_index
       THEN /\ disk' = disk
            /\ Return(t, "error")
       ELSE /\ disk' = [disk EXCEPT !.index_file = File(store.index)]
            /\ Goto(t, "save2", [loc[t] EXCEPT !.self = "global"])
            /\ last' = last
    /\ UNCHANGED <<up, store, db, old>>

\* save, lines 83-84: trial_ids.json is written, and the method returns; a
\* rebuild inside semantic_search goes on to search
SaveIds(t) ==
    /\ pc[t] = "save2"
    /\ disk' = [disk EXCEPT !.ids_file = File(SelfOf(t).trial_ids)]
    /\ old' = IF loc[t].self = "old" THEN NewStore ELSE old
    /\ IF loc[t].op = "query"
       THEN /\ Goto(t, "search", [loc[t] EXCEPT !.self = "global", !.trials = <<>>])
            /\ last' = last
       ELSE Return(t, "ok")
    /\ UNCHANGED <<up, store, db>>

\* vector_store.search(query, top_k), lines 50-58: self is the store the
\* global refers to now; no index raises, an empty ledger returns []
SearchCheck(t) ==
    /\ pc[t] = "search"
    /\ IF ~store.has_index THEN Return(t, "error")
       ELSE IF Len(store.trial_ids) = 0 THEN Return(t, "ok")
       ELSE /\ Goto(t, "search2", [loc[t] EXCEPT !.self = "global"])
            /\ last' = last
    /\ UNCHANGED <<up, store, disk, db, old>>

\* search, line 62: self.index.search(q, min(top_k, len(self.trial_ids)))
SearchIndex(t) ==
    /\ pc[t] = "search2"
    /\ LET s == SelfOf(t)
           k == Min(loc[t].top_k, Len(s.trial_ids))
       IN  Goto(t, "search3",
                [loc[t] EXCEPT !.hits = faiss_search(s.index, Embed(loc[t].q), k, {})])
    /\ UNCHANGED <<up, store, disk, db, last, old>>

\* search, lines 65-73, and semantic_search, lines 463-485: the hits are
\* paired with self.trial_ids and resolved against the primary store
SearchPair(t) ==
    /\ pc[t] = "search3"
    /\ old' = IF loc[t].self = "old" THEN NewStore ELSE old
    /\ Return(t, "ok")
    /\ UNCHANGED <<up, store, disk, db>>

NextConc ==
    \E t \in Threads :
        \/ BeginCreate(t)
        \/ BeginRefresh(t)
        \/ BeginQuery(t)
        \/ NewGlobal(t)
        \/ CreateIndex(t)
        \/ FindAll(t)
        \/ IndexAdd(t)
        \/ IdsExtend(t)
        \/ SaveIndex(t)
        \/ SaveIds(t)
        \/ SearchCheck(t)
        \/ SearchIndex(t)
        \/ SearchPair(t)

SpecConc == InitConc /\ [][NextConc]_vars

----------------------------------------------------------------------------
(* Properties *)

\* both files of the artifact are readable and their lengths differ
Mismatched(d) ==
    /\ d.index_file.st = "ok"
    /\ d.ids_file.st = "ok"
    /\ Len(d.index_file.data) # Len(d.ids_file.data)

\* C1: after every completed operation, failed or not, the in-memory index
\* holds as many vectors as the in-memory ledger holds identifiers.
C1_LengthParity == up => Len(store.index) = Len(store.trial_ids)

\* C2: every step leaves the persisted artifact either as it was before the
\* operation or as the complete pair of the store the operation saved; never
\* the vectors of one save beside the ledger of another.
C2_AtomicPersistence == [][disk' = disk \/ disk' = Artifact(store')]_vars

\* C3: when startup loads an artifact whose vector count differs from its
\* ledger length, load fails.
C3_LoadDetectsMismatch ==
    [][(~up /\ up' /\ Mismatched(disk)) => load(NewStore, disk).raised]_vars

\* C6: in every state reached by operations that reported no failure, a
\* stop followed by startup initialization yields the ledger held before the
\* stop.
C6_RestartConsistency ==
    up => \A fault \in SaveFaults :
             initialize_vector_store(disk, db, fault).store.trial_ids = store.trial_ids

\* C7: a startup that finds no persisted artifact ends with the ledger equal to
\* the identifiers of all records of the primary store in fetch order, one
\* vector per record, and the artifact equal to that in-memory pair (where
\* the primary store is empty, only the in-memory pair is compared).
C7_ColdStartBuildsAll ==
    [][(~up /\ up' /\ disk.index_file.st = "absent")
         => /\ store'.trial_ids = batch_ids(db)
            /\ Len(store'.index) = Len(db)
            /\ db # <<>> => disk' = Artifact(store')]_vars

\* C8: a startup that finds an artifact whose vector count differs from its
\* ledger length ends with the pair a cold start builds: the identifiers and
\* the embeddings of all records of the primary store.
C8_CorruptStartRebuilds ==
    [][(~up /\ up' /\ Mismatched(disk))
         => /\ store'.trial_ids = batch_ids(db)
            /\ store'.index = batch_embeddings(db)]_vars

\* C9: a record creation that completes successfully appends exactly one
\* vector and exactly the created identifier, leaves every earlier entry as it
\* was, also when the identifier is already in the ledger, and leaves the
\* artifact equal to the in-memory pair.
C9_IncrementalAppend ==
    [][(last'.op = "create" /\ last'.outcome = "ok")
         => /\ Len(store'.index) = Len(store.index) + 1
            /\ SubSeq(store'.index, 1, Len(store.index)) = store.index
            /\ store'.trial_ids = Append(store.trial_ids, last'.id)
            /\ disk' = Artifact(store')]_vars

\* C9 witness: a successful creation of an identifier the ledger already held
C9_DuplicateAppended ==
    /\ last.op = "create"
    /\ last.outcome = "ok"
    /\ Len(store.trial_ids) = 2
    /\ store.trial_ids[1] = store.trial_ids[2]
    /\ disk = Artifact(store)

\* some query against the in-memory pair succeeds and returns record id
CanReturn(id) ==
    \E q \in Texts, top_k \in 1..MaxTopK :
        LET r == semantic_search(store, disk, db, q, top_k, "none")
        IN  /\ r.outcome = "ok"
            /\ \E i \in DOMAIN r.out : r.out[i].id = id

\* C10: after a record creation whose save failed, the in-memory pair holds
\* the new entry, index and ledger have equal lengths, and a later query can
\* return the new record.
C10_SaveFailureKeepsEntry ==
    (last.op = "create" /\ last.outcome = "error")
        => /\ Len(store.trial_ids) > 0
           /\ store.trial_ids[Len(store.trial_ids)] = last.id
           /\ Len(store.index) = Len(store.trial_ids)
           /\ CanReturn(last.id)

\* a thread whose operation has begun to change the shared pair and has not
\* yet finished with it
InFlight(t) ==
    \/ pc[t] \in {"create_index", "find", "ext", "save", "save2"}
    \/ pc[t] = "add" /\ loc[t].op # "create"

\* C4: whenever a query is at a statement of search, the store it reads has
\* as many vectors as identifiers.
C4_QuerySeesParity ==
    \A t \in Threads :
        pc[t] \in {"search", "search2", "search3"}
            => Len(SelfOf(t).index) = Len(SelfOf(t).trial_ids)

\* C5: at most one mutating operation on the shared pair is in progress.
C5_SingleWriter == Cardinality({t \in Threads : InFlight(t)}) <= 1

\* C11: a record creation or a refresh in which adding to the in-memory pair
\* succeeded and only the save did not complete reports a warning or a
\* success to its caller, not a failure.
C11_SaveFailureIsWarning ==
    [][(/\ last'.op \in {"create", "refresh"}
        /\ last'.op = "create" => store'.trial_ids = Append(store.trial_ids, last'.id)
        /\ last'.op = "refresh" => (db # <<>> /\ store'.trial_ids = batch_ids(db))
        /\ disk' # Artifact(store'))
         => last'.outcome # "error"]_vars

\* C12: a refresh that reports no error leaves the ledger equal to the
\* identifiers of the primary store's records in fetch order, the index equal
\* to their embeddings and nothing else, and the artifact equal to that
\* in-memory pair; also when the primary store is empty.
C12_RefreshRebuildsAndPersists ==
    [][(last'.op = "refresh" /\ last'.outcome # "error")
         => /\ store'.trial_ids = batch_ids(db')
            /\ store'.index = batch_embeddings(db')
            /\ disk' = Artifact(store')]_vars

\* position p comes before position r among the neighbours of qv: it is
\* nearer, or as near and inserted earlier
Before(vecs, qv, p, r) ==
    \/ L2(vecs[p], qv) < L2(vecs[r], qv)
    \/ L2(vecs[p], qv) = L2(vecs[r], qv) /\ p < r

\* C13: for an index of n vectors and a requested k of at least 1, search
\* returns exactly min(k, n) entries: those of the min(k, n) nearest positions,
\* by ascending distance, positions of equal distance in insertion order.
C13_SearchShape ==
    (up /\ store.has_index) =>
        \A q \in Texts, k \in 1..MaxTopK :
            LET r == search(store, q, k)
                n == Len(store.index)
                m == Min(k, n)
            IN  /\ ~r.raised
                /\ Len(r.results) = m
                /\ \E pos \in [1..m -> 1..n] :
                      /\ \A i, j \in 1..m :
                            i < j => Before(store.index, Embed(q), pos[i], pos[j])
                      /\ \A i \in 1..m, p \in 1..n :
                            (\A j \in 1..m : pos[j] # p)
                                => Before(store.index, Embed(q), pos[i], p)
                      /\ \A i \in 1..m :
                            /\ r.results[i].score = 10 - L2(store.index[pos[i]], Embed(q))
                            /\ pos[i] <= Len(store.trial_ids)
                                  => r.results[i].trial_id = store.trial_ids[pos[i]]

\* C14: whenever the store the server's global refers to holds zero vectors,
\* search returns an empty sequence for every query and every k of at least
\* 1, and raises nothing.
C14_EmptyIndexQuery ==
    Len(store.index) = 0 =>
        \A q \in Texts, k \in 1..MaxTopK :
            LET r == search(store, q, k)
            IN  ~r.raised /\ r.results = <<>>

\* the identifiers of search results, and of the documents a query returns
result_ids(results) == [i \in DOMAIN results |-> results[i].trial_id]
out_ids(out) == [i \in DOMAIN out |-> out[i].id]

\* C15: a query whose k-NN result holds identifiers that are no longer in
\* the primary store succeeds and returns the documents of exactly the
\* identifiers that resolve, in the order of the k-NN result.
C15_UnresolvedSkipped ==
    (up /\ store.has_index) =>
        \A q \in Texts, k \in 1..MaxTopK :
            LET r == search(store, q, k)
                s == semantic_search(store, disk, db, q, k, "none")
            IN  ~r.raised =>
                   /\ s.outcome = "ok"
                   /\ out_ids(s.out) =
                        SelectSeq(result_ids(r.results), LAMBDA x : Found(db, x))

\* C15 witness: a query has succeeded in a state where the k-NN result of some
\* query holds two identifiers of which only the second resolves
C15_SomeUnresolved ==
    /\ up
    /\ last.op = "query"
    /\ last.outcome = "ok"
    /\ \E q \in Texts :
          LET r == search(store, q, 2)
              s == semantic_search(store, disk, db, q, 2, "none")
          IN  /\ Len(r.results) = 2
              /\ ~Found(db, r.results[1].trial_id)
              /\ out_ids(s.out) = <<r.results[2].trial_id>>

C17_RebuildCoverage ==
    (up /\ last.op = "refresh" /\ last.outcome = "ok") =>
        \A q \in Texts, k \in Len(db)..MaxTopK :
            LET s == semantic_search(store, disk, db, q, k, "none")
            IN  /\ s.outcome = "ok"
                /\ {s.out[i].id : i \in DOMAIN s.out} = {db[i].id : i \in DOMAIN db}

\* C17 witness: a refresh has rebuilt the pair from two records with
\* different identifiers
C17_RebuiltFromTwo ==
    /\ up
    /\ last.op = "refresh"
    /\ last.outcome = "ok"
    /\ Len(db) = 2
    /\ db[1].id # db[2].id
    /\ store.trial_ids = batch_ids(db)

\* no request is being served
Quiescent == \A t \in Threads : pc[t] \in {"idle", "done"}

\* C18: whenever no request is in progress, every position of the ledger is
\* a position of the index, and the vector there is the embedding of a record
\* that carries the ledger's identifier (in SpecConc every record ever
\* created is still in the primary store with the text it was created with).
C18_PositionalCorrespondence ==
    Quiescent =>
        \A i \in DOMAIN store.trial_ids :
            /\ i <= Len(store.index)
            /\ \E j \in DOMAIN db :
                  /\ db[j].id = store.trial_ids[i]
                  /\ Embed(db[j].txt) = store.index[i]

\* s is a prefix of t
IsPrefix(s, t) == Len(s) <= Len(t) /\ SubSeq(t, 1, Len(s)) = s

\* the step replaces the in-memory pair: a refresh, a query that finds no
\* index, a startup (load or rebuild), or the end of the process
ReplacesPair ==
    \/ last'.op \in {"refresh", "startup", "stop"}
    \/ last'.op = "query" /\ ~store.has_index

\* C19: a step that updates or deletes a record of the primary store, through
\* the handlers or by another client, leaves the index, the ledger and the
\* artifact as they were; and every step that does not replace the pair
\* leaves the earlier ledger as a prefix of the later one.
C19_NoPropagation ==
    [][/\ last'.op \in {"delete", "update", "primary_delete", "primary_update"}
            => (store' = store /\ disk' = disk)
       /\ ~ReplacesPair => IsPrefix(store.trial_ids, store'.trial_ids)]_vars

\* C19 witness: a record whose identifier the saved ledger holds was deleted
\* from the primary store, and the pair and the artifact still hold it
C19_StaleAfterDelete ==
    /\ up
    /\ last.op = "primary_delete"
    /\ store.trial_ids # <<>>
    /\ Len(store.index) = Len(store.trial_ids)
    /\ disk = Artifact(store)
    /\ \E i \in DOMAIN store.trial_ids : ~Found(db, store.trial_ids[i])

\* the entries the k-NN hits stand for: for every (position, distance) with a
\* position of the ledger whose identifier resolves, that identifier with the
\* score of that distance (in tenths)
RECURSIVE paired(_, _, _)
paired(hits, ids, docs) ==
    IF hits = <<>> THEN <<>>
    ELSE LET h == Head(hits)
         IN  (IF h.idx >= 0 /\ h.idx < Len(ids) /\ Found(docs, ids[h.idx + 1])
              THEN <<[id |-> ids[h.idx + 1], score |-> 10 - h.dist]>>
              ELSE <<>>) \o paired(Tail(hits), ids, docs)

\* C20: in every state where index and ledger have equal lengths, for every
\* query and every k of at least 1, the entries a query returns are, hit by
\* hit, the ledger's identifier at the hit's position with the score of the
\* hit's own distance; also when the ledger holds an identifier twice.
C20_ResultPairing ==
    (up /\ store.has_index /\ Len(store.index) = Len(store.trial_ids)) =>
        \A q \in Texts, k \in 1..MaxTopK :
            LET hits == faiss_search(store.index, Embed(q), Min(k, Len(store.index)), {})
                s == semantic_search(store, disk, db, q, k, "none")
            IN  /\ s.outcome = "ok"
                /\ [i \in DOMAIN s.out |-> [id |-> s.out[i].id, score |-> s.out[i].score]]
                      = paired(hits, store.trial_ids, db)

\* C21: a refresh, or a query that rebuilds because it finds no index, that
\* reports a failure leaves the in-memory pair and the artifact as they were
\* before it began.
C21_RebuildFailsAtomically ==
    [][(/\ last'.outcome = "error"
        /\ \/ last'.op = "refresh"
           \/ last'.op = "query" /\ ~store.has_index)
         => (store' = store /\ disk' = disk)]_vars

\* the entries of the hits whose position is a position of the index (of n
\* vectors) and of the ledger: the ledger's identifier there, with the score
\* of the hit's distance (in tenths)
RECURSIVE valid_entries(_, _, _)
valid_entries(hits, ids, n) ==
    IF hits = <<>> THEN <<>>
    ELSE LET h == Head(hits)
         IN  (IF h.idx >= 0 /\ h.idx < n /\ h.idx < Len(ids)
              THEN <<[trial_id |-> ids[h.idx + 1], score |-> 10 - h.dist]>>
              ELSE <<>>) \o valid_entries(Tail(hits), ids, n)

\* C22: in every state of the running server, a pair loaded from an artifact
\* of unequal lengths included, for every query and every k of at least 1
\* search returns an entry for exactly the hits of the k-NN search whose
\* position p has 0 <= p < index size, with the identifier ledger[p]; the
\* marker -1 of a missing neighbour never becomes an entry.
C22_ValidPositionsOnly ==
    (up /\ store.has_index) =>
        \A q \in Texts, k \in 1..MaxTopK :
            LET hits == faiss_search(store.index, Embed(q),
                                     Min(k, Len(store.trial_ids)), {})
                r == search(store, q, k)
            IN  /\ ~r.raised
                /\ r.results = valid_entries(hits, store.trial_ids, Len(store.index))

====
